---- MODULE Spec2Model ----
(***************************************************************************)
(* A model of the recursive crawler of src/web_crawler.py:                 *)
(* scrape_website and its nested coroutine _scrape, run as one task.       *)
(* The call stack of _scrape is explicit; the network, the pages and the   *)
(* user callbacks are nondeterministic inputs drawn from small sets.       *)
(***************************************************************************)
EXTENDS Integers, Sequences, FiniteSets, Bags, TLC

(***************************************************************************)
(* Bounds of the model.                                                    *)
(***************************************************************************)
\* largest `depth` argument tried
MaxDepth == 3
\* longest link list a link extractor returns
MaxLinks == 2
\* page cap N of the stop handlers of scrape_test.py / make_stop_handler
CapN == 2

(***************************************************************************)
(* URLs.  A URL string is modelled by its parts; two URLs are the same     *)
(* string iff all parts agree.  urlparse(u).netloc is u.host.              *)
(***************************************************************************)
MkUrl(h, p, f) == [host |-> h, path |-> p, frag |-> f]

StartUrl == MkUrl("a.example", "/", "")

URLS ==
    { StartUrl,
      MkUrl("a.example", "/b", ""),
      MkUrl("a.example", "/b", "sec"),
      MkUrl("b.example", "/", "") }

Netloc(u) == u.host

\* urldefrag(u)[0]: the URL without its fragment, which is the resource a
\* request for u goes to.
StripFragment(u) == [u EXCEPT !.frag = ""]

\* Link lists an extractor can return: every sequence of at most MaxLinks URLs.
LinkLists == UNION { [1..n -> URLS] : n \in 0..MaxLinks }

(***************************************************************************)
(* Dates.  A datetime is a wall-clock reading with a UTC offset (aware) or *)
(* without one (naive).  Optional values are records tagged by `kind`.     *)
(***************************************************************************)
None == "None"

NoDate == [kind |-> "none"]
Garbage == [kind |-> "garbage"]
Aware(w, off) == [kind |-> "date", wall |-> w, aware |-> TRUE, off |-> off]
NaiveDate(w) == [kind |-> "date", wall |-> w, aware |-> FALSE, off |-> 0]

\* naive: dt.replace(tzinfo=utc); aware: dt.astimezone(utc).  The UTC instant.
ToUTC(dt) == IF dt.aware THEN dt.wall - dt.off ELSE dt.wall

\* the values of the `since` argument tried
Sinces == { NoDate, NaiveDate(2) }

\* the Last-Modified headers a response can carry (absent, unparseable, dates)
LastModifieds ==
    { NoDate, Garbage, Aware(2, 0), Aware(2, 1) }

\* since_utc: None, or the UTC instant of `since`
SinceUtc(s) == IF s.kind = "date" THEN [set |-> TRUE, utc |-> ToUTC(s)]
               ELSE [set |-> FALSE, utc |-> 0]

\* last_modified_dt: parsedate_to_datetime normalised to UTC; None when the
\* header is absent or does not parse
ParseLastModified(h) == IF h.kind = "date" THEN [set |-> TRUE, utc |-> ToUTC(h)]
                        ELSE [set |-> FALSE, utc |-> 0]

IsOlderThanSinceReversed(s, h) ==
    /\ SinceUtc(s).set
    /\ ParseLastModified(h).set
    /\ ParseLastModified(h).utc > SinceUtc(s).utc

\* `since_utc and last_modified_dt and last_modified_dt < since_utc`
IsOlderThanSince(s, h) ==
    /\ SinceUtc(s).set
    /\ ParseLastModified(h).set
    /\ ParseLastModified(h).utc < SinceUtc(s).utc

(***************************************************************************)
(* url_regex: None or a pattern; re.match is modelled by the set of URLs   *)
(* the pattern matches.  The pattern tried is anchored at both ends, like  *)
(* the one of scrape_test.py, and matches one URL.                         *)
(***************************************************************************)
ArticlePattern == "https://a\\.example/b$"
Regexes == { None, ArticlePattern }

ReMatch(pat, u) ==
    pat = ArticlePattern /\ u.host = "a.example" /\ u.path = "/b" /\ u.frag = ""

\* `url_regex is not None and not re.match(url_regex, next_url)` -> continue
RegexRejects(pat, u) == pat # None /\ ~ReMatch(pat, u)

(***************************************************************************)
(* HTTP.                                                                   *)
(***************************************************************************)
\* statuses a response can carry
Statuses == { 200, 404 }

\* response.raise_for_status(): raises ClientResponseError for status >= 400
RaisesForStatus(st) == st >= 400

\* `response.content_type not in ("text/html", "application/xhtml+xml")`
ContentTypes == { "text/html", "application/xhtml+xml", "application/pdf" }

IsHtmlFamilyAny(ct) == TRUE

IsHtmlFamily(ct) == ct \in { "text/html", "application/xhtml+xml" }

\* success = 200 <= response.status < 300
Success(st) == 200 <= st /\ st < 300

VARIABLES
    depth,        \* the depth argument
    since,        \* the since argument
    url_regex,    \* the url_regex argument
    stop_handler, \* which stop handler was passed, one of StopHandlers
    data_handler, \* which data handler was passed, one of DataHandlers
    start_page,   \* the links the start URL's page carries, when known
    visited,      \* the ThreadSafeSet's set
    stack,        \* the active calls of _scrape, outermost first
    raised,       \* the exception leaving the outermost _scrape, or None
    session,      \* the shared ClientSession: "open" or "closed"
    fetchLog,     \* bag of the session.get calls issued: url, call-chain length
    dataLog,      \* bag of the data_handler invocations: url, status, success
    delayed,      \* a full asyncio.sleep(delay) ended since the last session.get
    tasks,        \* the steps of crawls that share one visited set
    extraction,   \* one call of the interactive link extractor
    ev            \* what the last step did, and for which current_url

vars == << depth, since, url_regex, stop_handler, data_handler, start_page,
           visited, stack, raised, session, fetchLog, dataLog, delayed, ev,
           tasks, extraction >>

config == << depth, since, url_regex, stop_handler, data_handler, start_page >>

\* what a single crawl of scrape_website leaves alone
aside == << tasks, extraction >>

\* no other crawl shares the visited set; the interactive extractor is not in use
NoTasks == << >>
NoExtraction == [stage |-> "none"]


(***************************************************************************)
(* The call stack.  A frame is one call _scrape(current_url, current_depth)*)
(* with the locals that outlive an await: the response's status and        *)
(* Last-Modified header, and `links`, the part of the list that            *)
(* `for next_url in links` has yet to yield.                               *)
(***************************************************************************)
Frame(u, d) == [url |-> u, depth |-> d, pc |-> "enter",
                status |-> 0, last_modified |-> NoDate, links |-> << >>]

Top == stack[Len(stack)]
Pop(stk) == SubSeq(stk, 1, Len(stk) - 1)
SetTop(stk, f) == [stk EXCEPT ![Len(stk)] = f]

Running == stack # << >> /\ session = "open"
At(pc) == Running /\ Top.pc = pc

Event(kind) == [kind |-> kind, url |-> Top.url]

(***************************************************************************)
(* Exceptions.  `except KeyboardInterrupt: raise` then `except Exception`: *)
(* subclasses of Exception are logged and swallowed, anything else leaves  *)
(* the call.  A caller awaits the call inside its own try block, so an     *)
(* exception that leaves a call meets the caller's except clauses next.    *)
(***************************************************************************)
ExceptionSubclasses == { "ClientError", "ClientResponseError", "Exception" }

ExceptClauseReraises(exc) == "raise"

ExceptClauseSwallowsAll(exc) == "swallow"

ExceptClause(exc) ==
    IF exc = "KeyboardInterrupt" THEN "raise"
    ELSE IF exc \in ExceptionSubclasses THEN "swallow"
    ELSE "raise"

\* exc is raised inside the try block of the top frame of stk
RECURSIVE Propagate(_, _)
Propagate(stk, exc) ==
    IF stk = << >> THEN [stack |-> << >>, raised |-> exc]
    ELSE IF ExceptClause(exc) = "swallow" THEN [stack |-> Pop(stk), raised |-> None]
    ELSE Propagate(Pop(stk), exc)

\* a plain `return` of the top call
Return(stk) == [stack |-> Pop(stk), raised |-> None]

(***************************************************************************)
(* The callbacks.                                                          *)
(***************************************************************************)
\* "free": a handler that may answer anything (one that always answers False
\* behaves as no handler); "cap": force_to_stop / make_stop_handler
StopHandlers == { "free", "cap" }

\* the start URL's page is any page, or a page carrying exactly `links`
AnyPage == [known |-> FALSE, links |-> << >>]
KnownPage(links) == [known |-> TRUE, links |-> links]

\* the argument combinations tried: any handler answers with every since and
\* url_regex, the page-cap handler with neither
Configs ==
    { c \in [since : Sinces, url_regex : Regexes, stop_handler : StopHandlers] :
        c.stop_handler = "cap" => (c.since = NoDate /\ c.url_regex = None) }

CapReachedStrictly(vis) == Cardinality(vis) > CapN

\* force_to_stop / make_stop_handler: len(visited) >= N
CapReached(vis) == Cardinality(vis) >= CapN

\* what `stop_handler and stop_handler(url, depth, visited.set)` can evaluate to
StopResults(handler, vis) ==
    CASE handler = "free" -> BOOLEAN
      [] handler = "cap"  -> { CapReached(vis) }
      [] handler = "never" -> { FALSE }     \* a handler that always answers False
      [] handler = "raising" -> BOOLEAN     \* a handler that may also raise
      [] handler = "mutating" -> BOOLEAN    \* a handler that may also change the set

\* what data_handler(payload) can do: return a truth value or raise
DataResults == { "true", "false", "raise" }

\* "free": a data handler that may do any of these; "always_true": one that
\* always returns True
DataResultsOf(handler) == IF handler = "always_true" THEN { "true" } ELSE DataResults

(***************************************************************************)
(* Decisions of _scrape.                                                   *)
(***************************************************************************)
AlreadyVisitedNever(u, vis) == FALSE

\* `if current_url in visited: return`
AlreadyVisited(u, vis) == u \in vis

EnterOutcomeInsertFirst(stop, u, vis) ==
    IF AlreadyVisited(u, vis) THEN [kind |-> "seen", visited |-> vis]
    ELSE IF stop THEN [kind |-> "stop", visited |-> vis \cup { u }]
    ELSE [kind |-> "claim", visited |-> vis \cup { u }]

\* lines 189-200: the stop check, then the visited test, then the insert
EnterOutcome(stop, u, vis) ==
    IF stop THEN [kind |-> "stop", visited |-> vis]
    ELSE IF AlreadyVisited(u, vis) THEN [kind |-> "seen", visited |-> vis]
    ELSE [kind |-> "claim", visited |-> vis \cup { u }]

ShouldRecurseAtLeaf(d) == d > 0

\* `if current_depth > 1:`
ShouldRecurse(d) == d > 1

SameDomainAny(next, cur) == TRUE

\* `urlparse(next_url).netloc == origin_host`, origin_host from current_url
SameDomain(next, cur) == Netloc(next) = Netloc(cur)

LoopVerdictSkipsAll(pat, next, cur, vis) == "skip_seen"

\* the loop body for next_url: `continue` on a regex mismatch, then the
\* same-domain and not-visited test, then `await _scrape(next_url, depth - 1)`
LoopVerdict(pat, next, cur, vis) ==
    IF RegexRejects(pat, next) THEN "skip_regex"
    ELSE IF ~SameDomain(next, cur) THEN "skip_domain"
    ELSE IF next \in vis THEN "skip_seen"
    ELSE "call"

AfterDataIgnoresFalse(res, d) ==
    CASE res = "raise" -> "raise"
      [] OTHER -> IF ShouldRecurse(d) THEN "loop" ELSE "sleep"

\* where the call goes after data_handler(payload) evaluated to res
AfterData(res, d) ==
    CASE res = "raise" -> "raise"
      [] res = "false" -> "return"
      [] res = "true"  -> IF ShouldRecurse(d) THEN "loop" ELSE "sleep"

\* The lists effective_extractor(temp_page) can return.  Only the loop reads
\* `links`; a call that goes on to the delay keeps no list.
ExtractedLinks(to) == IF to = "loop" THEN LinkLists ELSE { << >> }

\* the lists the extractor can return for the page of u
PageLinks(page, u, to) ==
    IF page.known /\ u = StartUrl /\ to = "loop" THEN { page.links }
    ELSE ExtractedLinks(to)

(***************************************************************************)
(* Initial state: scrape_website was called, the session is open and       *)
(* _scrape(url, depth) is about to run.                                    *)
(***************************************************************************)
Init ==
    /\ depth \in 0..MaxDepth
    /\ \E c \in Configs :
         /\ since = c.since
         /\ url_regex = c.url_regex
         /\ stop_handler = c.stop_handler
    /\ data_handler = "free"
    /\ start_page = AnyPage
    /\ visited = {}
    /\ stack = << Frame(StartUrl, depth) >>
    /\ raised = None
    /\ session = "open"
    /\ fetchLog = EmptyBag
    /\ dataLog = EmptyBag
    /\ delayed = FALSE
    /\ ev = [kind |-> "call", url |-> StartUrl]
    /\ tasks = NoTasks
    /\ extraction = NoExtraction

\* the step leaves the top call with outcome r (of Return or Propagate)
Leave(r) == stack' = r.stack /\ raised' = r.raised

(***************************************************************************)
(* Lines 188-200: the stop check, then the visited test and insert.  No    *)
(* await separates them.                                                   *)
(***************************************************************************)
Enter ==
    /\ At("enter")
    /\ \E stop \in StopResults(stop_handler, visited) :
         LET out == EnterOutcome(stop, Top.url, visited) IN
         /\ visited' = out.visited
         /\ ev' = Event(out.kind)
         /\ IF out.kind = "claim"
            THEN stack' = SetTop(stack, [Top EXCEPT !.pc = "get"]) /\ UNCHANGED raised
            ELSE Leave(Return(stack))
    /\ UNCHANGED << config, aside, session, fetchLog, dataLog, delayed >>

(***************************************************************************)
(* Lines 203-212: session.get, raise_for_status, the content-type test     *)
(* and response.text().  A connection error or timeout raises.             *)
(***************************************************************************)
Get ==
    /\ At("get")
    /\ fetchLog' = fetchLog (+) SetToBag({[url |-> Top.url, chain |-> Len(stack)]})
    /\ delayed' = FALSE
    /\ \/ /\ Leave(Propagate(stack, "ClientError"))
          /\ ev' = [kind |-> "fetch_error", url |-> Top.url, status |-> 0]
       \/ \E st \in Statuses, ct \in ContentTypes :
            IF RaisesForStatus(st)
            THEN /\ Leave(Propagate(stack, "ClientResponseError"))
                 /\ ev' = [kind |-> "fetch_error", url |-> Top.url, status |-> st]
            ELSE IF ~IsHtmlFamily(ct)
            THEN /\ Leave(Return(stack))
                 /\ ev' = [kind |-> "not_html", url |-> Top.url, content_type |-> ct]
            ELSE /\ \E lm \in LastModifieds :
                      stack' = SetTop(stack, [Top EXCEPT !.pc = "page", !.status = st,
                                                         !.last_modified = lm])
                 /\ ev' = [kind |-> "response", url |-> Top.url, content_type |-> ct]
                 /\ UNCHANGED raised
    /\ UNCHANGED << config, aside, visited, session, dataLog >>

(***************************************************************************)
(* Lines 213-276: parse, the Last-Modified test, the link extractor, the   *)
(* payload and data_handler; all synchronous.  The extractor runs before   *)
(* data_handler; its list is read only after data_handler returned true.   *)
(***************************************************************************)
PageOlder ==
    /\ At("page")
    /\ IsOlderThanSince(since, Top.last_modified)
    /\ Leave(Return(stack))
    /\ ev' = Event("older")
    /\ UNCHANGED << config, aside, visited, session, fetchLog, dataLog, delayed >>

PageExtractorRaises ==
    /\ At("page")
    /\ ~IsOlderThanSince(since, Top.last_modified)
    /\ Leave(Propagate(stack, "Exception"))
    /\ ev' = Event("extractor_raised")
    /\ UNCHANGED << config, aside, visited, session, fetchLog, dataLog, delayed >>

\* lines 257-259: effective_extractor(temp_page) returns; the payload is built
PageExtract ==
    /\ At("page")
    /\ ~IsOlderThanSince(since, Top.last_modified)
    /\ stack' = SetTop(stack, [Top EXCEPT !.pc = "extracted"])
    /\ ev' = Event("extracted")
    /\ UNCHANGED << config, aside, visited, raised, session, fetchLog, dataLog, delayed >>

\* lines 275-279: data_handler(payload)
PageData ==
    /\ At("extracted")
    /\ dataLog' = dataLog (+) SetToBag({ [url |-> Top.url, status |-> Top.status,
                                          success |-> Success(Top.status)] })
    /\ \E res \in DataResultsOf(data_handler) :
         LET to == AfterData(res, Top.depth) IN
         /\ ev' = Event(IF res = "raise" THEN "data_raised"
                        ELSE IF res = "false" THEN "data_false" ELSE "data_true")
         /\ CASE to = "raise"  -> Leave(Propagate(stack, "Exception"))
              [] to = "return" -> Leave(Return(stack))
              [] OTHER ->
                   /\ \E links \in PageLinks(start_page, Top.url, to) :
                        stack' = SetTop(stack, [Top EXCEPT !.pc = to, !.links = links,
                                                           !.last_modified = NoDate])
                   /\ UNCHANGED raised
    /\ UNCHANGED << config, aside, visited, session, fetchLog, delayed >>

(***************************************************************************)
(* Lines 281-287: one iteration of `for next_url in links`.                *)
(***************************************************************************)
Loop ==
    /\ At("loop")
    /\ IF Top.links = << >>
       THEN /\ stack' = SetTop(stack, [Top EXCEPT !.pc = "sleep"])
            /\ ev' = Event("loop_end")
       ELSE LET next == Head(Top.links)
                here == [Top EXCEPT !.links = Tail(Top.links)]
                verdict == LoopVerdict(url_regex, next, Top.url, visited)
            IN  /\ ev' = [kind |-> verdict, url |-> next]
                /\ stack' = IF verdict = "call"
                            THEN Append(SetTop(stack, here), Frame(next, Top.depth - 1))
                            ELSE SetTop(stack, here)
    /\ UNCHANGED << config, aside, visited, raised, session, fetchLog, dataLog, delayed >>

(***************************************************************************)
(* Line 290: the politeness delay, after which the call returns.           *)
(***************************************************************************)
Sleep ==
    /\ At("sleep")
    /\ Leave(Return(stack))
    /\ ev' = Event("slept")
    /\ delayed' = TRUE
    /\ UNCHANGED << config, aside, visited, session, fetchLog, dataLog >>

(***************************************************************************)
(* Lines 185, 297: the outermost _scrape is over; `async with` closes the  *)
(* session and scrape_website returns or raises.                           *)
(***************************************************************************)
SessionOnExitLeaksOnError(exc) == IF exc = None THEN "closed" ELSE "open"

\* `async with aiohttp.ClientSession(...) as session:` closes the session
\* when its block is left, by return or by exception exc
SessionOnExit(exc) == "closed"

Close ==
    /\ stack = << >>
    /\ session = "open"
    /\ session' = SessionOnExit(raised)
    /\ ev' = [kind |-> IF raised = None THEN "returned" ELSE "raised", url |-> ev.url]
    /\ UNCHANGED << config, aside, visited, stack, raised, fetchLog, dataLog, delayed >>

Next ==
    \/ Enter
    \/ Get
    \/ PageOlder
    \/ PageExtractorRaises
    \/ PageExtract
    \/ PageData
    \/ Loop
    \/ Sleep
    \/ Close

Spec == Init /\ [][Next]_vars

Done == session = "closed"

(***************************************************************************)
(* Lines 189-196 with a stop handler that raises.  The call of the handler *)
(* stands before `try:` (line 202), so the exception leaves this call of   *)
(* _scrape and is raised in the caller at `await _scrape(...)`, line 287,  *)
(* inside the caller's try block, or leaves scrape_website at line 297.    *)
(***************************************************************************)
EnterStopRaises ==
    /\ At("enter")
    /\ stop_handler = "raising"
    /\ Leave(Propagate(Pop(stack), "Exception"))
    /\ ev' = [kind |-> "stop_raised", url |-> Top.url, level |-> Len(stack)]
    /\ UNCHANGED << config, aside, visited, session, fetchLog, dataLog, delayed >>

(***************************************************************************)
(* The task running scrape_website is cancelled (asyncio.wait_for timing   *)
(* out, example.py line 40): CancelledError is raised at the await the     *)
(* innermost call is suspended in: session.get / response.text() or        *)
(* asyncio.sleep.                                                          *)
(***************************************************************************)
AwaitPoints == { "get", "sleep" }

Cancel ==
    /\ Running
    /\ Top.pc \in AwaitPoints
    /\ Leave(Propagate(stack, "CancelledError"))
    /\ ev' = Event("cancelled")
    /\ UNCHANGED << config, aside, visited, session, fetchLog, dataLog, delayed >>

\* scrape_website called with a stop handler that may raise
InitFaults ==
    /\ depth \in 0..MaxDepth
    /\ since \in Sinces
    /\ url_regex \in Regexes
    /\ stop_handler = "raising"
    /\ data_handler = "free"
    /\ start_page = AnyPage
    /\ visited = {}
    /\ stack = << Frame(StartUrl, depth) >>
    /\ raised = None
    /\ session = "open"
    /\ fetchLog = EmptyBag
    /\ dataLog = EmptyBag
    /\ delayed = FALSE
    /\ ev = [kind |-> "call", url |-> StartUrl]
    /\ tasks = NoTasks
    /\ extraction = NoExtraction

NextFaults ==
    \/ Next
    \/ EnterStopRaises
    \/ Cancel

(***************************************************************************)
(* Lines 189-200 with a stop handler that changes the set it is given.     *)
(* visited_for_stop is `visited.set`, the set object inside the            *)
(* ThreadSafeSet (or `visited` itself when it is a plain set), so what the *)
(* handler adds or removes is added to or removed from the crawl's set.    *)
(***************************************************************************)
\* the sets a handler can leave behind by adding or removing one URL
Mutations(vis) ==
    ({ vis \cup { u } : u \in URLS } \cup { vis \ { u } : u \in URLS }) \ { vis }

EnterStopMutates ==
    /\ At("enter")
    /\ stop_handler = "mutating"
    /\ \E vis \in Mutations(visited), stop \in BOOLEAN :
         LET out == EnterOutcome(stop, Top.url, vis) IN
         /\ visited' = out.visited
         /\ ev' = Event(out.kind)
         /\ IF out.kind = "claim"
            THEN stack' = SetTop(stack, [Top EXCEPT !.pc = "get"]) /\ UNCHANGED raised
            ELSE Leave(Return(stack))
    /\ UNCHANGED << config, aside, session, fetchLog, dataLog, delayed >>

\* scrape_website called with a stop handler that may change the set
InitMutating ==
    /\ depth \in 0..MaxDepth
    /\ since \in Sinces
    /\ url_regex = None
    /\ stop_handler = "mutating"
    /\ data_handler = "free"
    /\ start_page = AnyPage
    /\ visited = {}
    /\ stack = << Frame(StartUrl, depth) >>
    /\ raised = None
    /\ session = "open"
    /\ fetchLog = EmptyBag
    /\ dataLog = EmptyBag
    /\ delayed = FALSE
    /\ ev = [kind |-> "call", url |-> StartUrl]
    /\ tasks = NoTasks
    /\ extraction = NoExtraction

NextMutating ==
    \/ Next
    \/ EnterStopMutates

SpecMutating == InitMutating /\ [][NextMutating]_vars

\* the depths the scenario crawls are called with
ScenarioDepths == { 1, 2, 3 }

\* scrape_website called with a stop handler that always answers False and a
\* data handler that always returns True, on a start page whose links are known
InitScenario ==
    /\ depth \in ScenarioDepths
    /\ since \in Sinces
    /\ url_regex \in Regexes
    /\ stop_handler = "never"
    /\ data_handler = "always_true"
    /\ start_page \in { KnownPage(l) : l \in LinkLists }
    /\ visited = {}
    /\ stack = << Frame(StartUrl, depth) >>
    /\ raised = None
    /\ session = "open"
    /\ fetchLog = EmptyBag
    /\ dataLog = EmptyBag
    /\ delayed = FALSE
    /\ ev = [kind |-> "call", url |-> StartUrl]
    /\ tasks = NoTasks
    /\ extraction = NoExtraction

SpecScenario == InitScenario /\ [][Next]_vars

\* the crawl with a raising stop handler and under cancellation
SpecFaults == InitFaults /\ [][NextFaults]_vars

(***************************************************************************)
(* Crawls that share one visited set: scrape_website takes `visited` as an *)
(* argument, so several crawls running as tasks of one event loop can be   *)
(* given the same ThreadSafeSet.  A task runs until its next await, so     *)
(* lines 189-200 of a step (stop check, `in visited`, visited.add) run     *)
(* without another task's step in between; the tasks interleave at         *)
(* session.get.  Each task is shown one step at a time.                    *)
(***************************************************************************)
NumTasks == 2

Tasks == 1..NumTasks

\* the URLs a crawl started at StartUrl makes steps for
StepUrls == { u \in URLS : SameDomain(u, StartUrl) }

InitShared ==
    /\ depth = 1
    /\ since = NoDate
    /\ url_regex = None
    /\ stop_handler = "free"
    /\ data_handler = "free"
    /\ start_page = AnyPage
    /\ visited = {}
    /\ stack = << >>
    /\ raised = None
    /\ session = "open"
    /\ fetchLog = EmptyBag
    /\ dataLog = EmptyBag
    /\ delayed = FALSE
    /\ ev = [kind |-> "call", url |-> StartUrl]
    /\ tasks \in [Tasks -> { [url |-> u, pc |-> "enter"] : u \in StepUrls }]
    /\ extraction = NoExtraction

\* lines 189-200 of task t's step, up to its first await
TaskEnter(t) ==
    /\ tasks[t].pc = "enter"
    /\ \E stop \in StopResults(stop_handler, visited) :
         LET out == EnterOutcome(stop, tasks[t].url, visited) IN
         /\ visited' = out.visited
         /\ tasks' = [tasks EXCEPT ![t].pc = IF out.kind = "claim" THEN "get"
                                              ELSE out.kind]
    /\ UNCHANGED << config, extraction, stack, raised, session, fetchLog, dataLog,
                    delayed, ev >>

\* line 203 of task t's step: the fetch is issued; the step goes on to its end
TaskGet(t) ==
    /\ tasks[t].pc = "get"
    /\ fetchLog' = fetchLog (+) SetToBag({[url |-> tasks[t].url, chain |-> 1]})
    /\ tasks' = [tasks EXCEPT ![t].pc = "done"]
    /\ UNCHANGED << config, extraction, visited, stack, raised, session, dataLog,
                    delayed, ev >>

\* line 287 or 297: task t's crawl calls _scrape for another URL
TaskCall(t) ==
    /\ tasks[t].pc \in { "stop", "seen", "done" }
    /\ \E u \in StepUrls : tasks' = [tasks EXCEPT ![t] = [url |-> u, pc |-> "enter"]]
    /\ UNCHANGED << config, extraction, visited, stack, raised, session, fetchLog,
                    dataLog, delayed, ev >>

NextShared ==
    \/ \E t \in Tasks : TaskEnter(t)
    \/ \E t \in Tasks : TaskGet(t)
    \/ \E t \in Tasks : TaskCall(t)

SpecShared == InitShared /\ [][NextShared]_vars

(***************************************************************************)
(* interactive_link_extractor.py: the extractor made by                    *)
(* make_interactive_link_extractor(user_cfg), called for one scraped page. *)
(* A URL is the text the code tests with str.startswith: the scheme, the   *)
(* host as the pieces it is written with, and the path.                    *)
(***************************************************************************)
AllowedHost == << "a.example" >>
LookalikeHost == << "a.example", ".evil.test" >>
OtherHost == << "b.example" >>

PageUrls == [scheme : { "https", "http" },
             host : { AllowedHost, LookalikeHost, OtherHost },
             path : { "/", "/list" }]

UrlText(page) == << page.scheme, "://" >> \o page.host \o << page.path >>

\* text.startswith(prefix)
StartsWith(text, prefix) ==
    /\ Len(prefix) <= Len(text)
    /\ SubSeq(text, 1, Len(prefix)) = prefix

ListPattern == "/list$"

\* re.search(pat, scraped_page.url)
ReSearch(pat, page) == pat = ListPattern /\ page.path = "/list"

Interactions == { "listbox", "scroll", "pagination" }

\* the settings tried: cfg after _merge_with_defaults
ExtractorConfigs ==
    [enabled : BOOLEAN,
     domains : { << >>, << AllowedHost >> },
     force_patterns : { << >>, << ListPattern >> },
     min_initial_links : { 0, 1 },
     interactions : { {} } \cup { { i } : i \in Interactions }]

\* any(url.startswith(f"https://{d}") or url.startswith(f"http://{d}") for d in domains)
InDomains(domains, page) ==
    \E i \in 1..Len(domains) :
        \/ StartsWith(UrlText(page), << "https", "://" >> \o domains[i])
        \/ StartsWith(UrlText(page), << "http", "://" >> \o domains[i])

\* _should_trigger_dynamic(scraped_page, base_links, cfg)
ShouldTriggerDynamic(page, base_count, cfg) ==
    \/ \E i \in 1..Len(cfg.force_patterns) : ReSearch(cfg.force_patterns[i], page)
    \/ base_count < cfg.min_initial_links
    \/ cfg.interactions # {}

\* extractor(scraped_page): "static" is `return base_links`, "engine" the
\* Playwright run followed by _normalize_and_merge
Extractor(cfg, page, base_count, playwright) ==
    IF ~cfg.enabled THEN "static"
    ELSE IF cfg.domains # << >> /\ ~InDomains(cfg.domains, page) THEN "static"
    ELSE IF ~ShouldTriggerDynamic(page, base_count, cfg) THEN "static"
    ELSE IF ~playwright THEN "static"
    ELSE "engine"

InitGate ==
    /\ depth = 1
    /\ since = NoDate
    /\ url_regex = None
    /\ stop_handler = "free"
    /\ data_handler = "free"
    /\ start_page = AnyPage
    /\ visited = {}
    /\ stack = << >>
    /\ raised = None
    /\ session = "open"
    /\ fetchLog = EmptyBag
    /\ dataLog = EmptyBag
    /\ delayed = FALSE
    /\ ev = [kind |-> "call", url |-> StartUrl]
    /\ tasks = NoTasks
    /\ \E cfg \in ExtractorConfigs, page \in PageUrls, n \in 0..MaxLinks,
          pw \in BOOLEAN :
         extraction = [stage |-> "called", cfg |-> cfg, page |-> page,
                       base_count |-> n, playwright |-> pw, result |-> "none"]

Extract ==
    /\ extraction.stage = "called"
    /\ extraction' = [extraction EXCEPT
                        !.stage = "returned",
                        !.result = Extractor(extraction.cfg, extraction.page,
                                             extraction.base_count,
                                             extraction.playwright)]
    /\ UNCHANGED << config, visited, stack, raised, session, fetchLog, dataLog,
                    delayed, ev, tasks >>

NextGate == Extract

SpecGate == InitGate /\ [][NextGate]_vars

\* the variables of the crawl, which a call of the extractor leaves alone
crawl == << config, visited, stack, raised, session, fetchLog, dataLog, delayed,
           ev, tasks >>

\* no crawl is under way
NoCrawl ==
    /\ depth = 1
    /\ since = NoDate
    /\ url_regex = None
    /\ stop_handler = "free"
    /\ data_handler = "free"
    /\ start_page = AnyPage
    /\ visited = {}
    /\ stack = << >>
    /\ raised = None
    /\ session = "open"
    /\ fetchLog = EmptyBag
    /\ dataLog = EmptyBag
    /\ delayed = FALSE
    /\ ev = [kind |-> "call", url |-> StartUrl]
    /\ tasks = NoTasks

(***************************************************************************)
(* _normalize_and_merge(base_links, add_links, norm_cfg), lines 246-258.   *)
(***************************************************************************)
\* cfg["link_normalization"]
NormConfigs == [strip_fragment : BOOLEAN, unique : BOOLEAN]

\* the loop over `merged`: `rest` is still to come, `seen` and `cleaned` as in
\* the code
RECURSIVE CleanLoop(_, _, _, _)
CleanLoop(rest, seen, cleaned, norm) ==
    IF rest = << >> THEN cleaned
    ELSE LET link == IF norm.strip_fragment THEN StripFragment(Head(rest))
                     ELSE Head(rest)
         IN  IF norm.unique /\ link \in seen
             THEN CleanLoop(Tail(rest), seen, cleaned, norm)
             ELSE CleanLoop(Tail(rest),
                            IF norm.unique THEN seen \cup { link } ELSE seen,
                            Append(cleaned, link), norm)

NormalizeAndMergeDynamicFirst(base_links, add_links, norm) ==
    CleanLoop(add_links \o base_links, {}, << >>, norm)

NormalizeAndMerge(base_links, add_links, norm) ==
    CleanLoop(base_links \o add_links, {}, << >>, norm)

\* lists without repeats, as default_link_extractor (dict.fromkeys) returns
BaseLinkLists ==
    { l \in LinkLists : \A i, j \in 1..Len(l) : l[i] = l[j] => i = j }

InitMerge ==
    /\ NoCrawl
    /\ \E base \in BaseLinkLists, add \in LinkLists, norm \in NormConfigs :
         extraction = [stage |-> "merge", base_links |-> base, add_links |-> add,
                       norm |-> norm, merged |-> << >>]

\* line 113: merged = _normalize_and_merge(base_links, dynamic_links, ...)
Merge ==
    /\ extraction.stage = "merge"
    /\ extraction' = [extraction EXCEPT
                        !.stage = "merged",
                        !.merged = NormalizeAndMerge(extraction.base_links,
                                                     extraction.add_links,
                                                     extraction.norm)]
    /\ UNCHANGED crawl

NextMerge == Merge

SpecMerge == InitMerge /\ [][NextMerge]_vars

(***************************************************************************)
(* The Playwright run of the extractor, lines 62-113: inside               *)
(* `with sync_playwright() as p:` the browser is launched, the page opened *)
(* and navigated, then listbox, scroll, collect, pagination and the final  *)
(* collect follow, then browser.close().  Any Playwright call can raise.   *)
(***************************************************************************)
\* the stages after navigation, in the order of the code
EngineStages == << "listbox", "scroll", "collect", "pagination", "final_collect" >>

\* the stage after stage number i, "close" after the last
StageAfter(i) == IF i < Len(EngineStages) THEN EngineStages[i + 1] ELSE "close"

StageNumber(stage) == CHOOSE i \in 1..Len(EngineStages) : EngineStages[i] = stage

OnStageErrorEscapes(stage) == "root"

\* `except Exception as e: meta["errors"].append(f"{stage}:{e}")` around
\* _apply_listbox, _apply_scroll and _apply_pagination
OnStageError(stage) == "recorded"

PlaywrightExitLeavesBrowser(browser) == browser

\* leaving `with sync_playwright() as p:` stops the Playwright driver, and
\* with it every browser the driver launched
PlaywrightExit(browser) == IF browser = "open" THEN "closed" ELSE browser

\* the extractor's Playwright run is about to start, or a call of
\* playwright_adapter.fetch_html_with_playwright is
InitEngine ==
    /\ NoCrawl
    /\ \E enabled \in SUBSET Interactions, first \in { "launch", "adapter_launch" } :
         extraction = [stage |-> first, enabled |-> enabled, browser |-> "none",
                       ran |-> << >>, failed |-> {}, errors |-> << >>,
                       root_failed |-> FALSE, result |-> "none"]

\* an exception leaves the with-block for the outer `except Exception`
RootFailure(x) == [x EXCEPT !.stage = "exit", !.root_failed = TRUE]

\* line 72: p.chromium.launch(...)
Launch ==
    /\ extraction.stage = "launch"
    /\ \/ extraction' = [extraction EXCEPT !.stage = "navigate", !.browser = "open"]
       \/ extraction' = RootFailure(extraction)
    /\ UNCHANGED crawl

\* lines 73-77: new_context, new_page, set_default_timeout, page.goto
Navigate ==
    /\ extraction.stage = "navigate"
    /\ \/ extraction' = [extraction EXCEPT !.stage = EngineStages[1]]
       \/ extraction' = RootFailure(extraction)
    /\ UNCHANGED crawl

\* lines 79-103: _apply_listbox, _apply_scroll or _apply_pagination, run when
\* enabled, inside its own try block
Interact ==
    /\ extraction.stage \in Interactions
    /\ LET stage == extraction.stage
           after == StageAfter(StageNumber(stage))
       IN  IF stage \notin extraction.enabled
           THEN extraction' = [extraction EXCEPT !.stage = after]
           ELSE \/ extraction' = [extraction EXCEPT !.stage = after,
                                                     !.ran = Append(@, stage)]
                \/ IF OnStageError(stage) = "recorded"
                   THEN extraction' = [extraction EXCEPT
                                         !.stage = after,
                                         !.ran = Append(@, stage),
                                         !.failed = @ \cup { stage },
                                         !.errors = Append(@, stage)]
                   ELSE extraction' = RootFailure([extraction EXCEPT
                                         !.ran = Append(@, stage),
                                         !.failed = @ \cup { stage }])
    /\ UNCHANGED crawl

\* lines 93 and 105-106: _collect_links(page), which catches what it raises
Collect ==
    /\ extraction.stage \in { "collect", "final_collect" }
    /\ extraction' = [extraction EXCEPT
                        !.stage = StageAfter(StageNumber(extraction.stage)),
                        !.ran = Append(@, extraction.stage)]
    /\ UNCHANGED crawl

\* line 108: browser.close()
CloseBrowser ==
    /\ extraction.stage = "close"
    /\ \/ extraction' = [extraction EXCEPT !.stage = "exit", !.browser = "closed"]
       \/ extraction' = RootFailure(extraction)
    /\ UNCHANGED crawl

\* lines 70 and 109-110: the with-block is left, by its end or by an
\* exception, which the outer `except Exception` records
ExitPlaywright ==
    /\ extraction.stage = "exit"
    /\ extraction' = [extraction EXCEPT
                        !.stage = "merge",
                        !.browser = PlaywrightExit(extraction.browser),
                        !.errors = IF extraction.root_failed
                                   THEN Append(@, "playwright_root") ELSE @]
    /\ UNCHANGED crawl

\* lines 112-121: merged = _normalize_and_merge(...); return merged
ReturnMerged ==
    /\ extraction.stage = "merge"
    /\ extraction' = [extraction EXCEPT !.stage = "returned", !.result = "merged"]
    /\ UNCHANGED crawl

\* playwright_adapter.py lines 71-77: p.chromium.launch, RuntimeError if it fails
AdapterLaunch ==
    /\ extraction.stage = "adapter_launch"
    /\ \/ extraction' = [extraction EXCEPT !.stage = "adapter_page", !.browser = "open"]
       \/ extraction' = [extraction EXCEPT !.stage = "adapter_finally",
                                            !.root_failed = TRUE]
    /\ UNCHANGED crawl

\* lines 79-104: new_context, new_page, goto, content, title; `return {...}`
AdapterPage ==
    /\ extraction.stage = "adapter_page"
    /\ \/ extraction' = [extraction EXCEPT !.stage = "adapter_finally"]
       \/ extraction' = [extraction EXCEPT !.stage = "adapter_finally",
                                            !.root_failed = TRUE]
    /\ UNCHANGED crawl

\* lines 105-119: `finally:` closes page, context and browser, each close
\* in a try block that swallows what it raises
AdapterFinally ==
    /\ extraction.stage = "adapter_finally"
    /\ \/ extraction' = [extraction EXCEPT
                            !.stage = "adapter_exit",
                            !.browser = IF @ = "open" THEN "closed" ELSE @]
       \/ /\ extraction.browser = "open"
          /\ extraction' = [extraction EXCEPT !.stage = "adapter_exit"]
    /\ UNCHANGED crawl

\* line 66: `async with async_playwright() as p:` is left
AdapterExit ==
    /\ extraction.stage = "adapter_exit"
    /\ extraction' = [extraction EXCEPT
                        !.stage = "adapter_returned",
                        !.browser = PlaywrightExit(extraction.browser),
                        !.result = IF extraction.root_failed THEN "raised" ELSE "html"]
    /\ UNCHANGED crawl

NextEngine ==
    \/ AdapterLaunch
    \/ AdapterPage
    \/ AdapterFinally
    \/ AdapterExit
    \/ Launch
    \/ Navigate
    \/ Interact
    \/ Collect
    \/ CloseBrowser
    \/ ExitPlaywright
    \/ ReturnMerged

SpecEngine == InitEngine /\ [][NextEngine]_vars

(***************************************************************************)
(* The static link extractors: default_link_extractor of web_crawler.py    *)
(* (lines 116-129) and of interactive_link_extractor.py (lines 18-26),     *)
(* applied to the `a[href]` values of a parsed page, in document order.    *)
(***************************************************************************)
\* an href as written in the page: an absolute http(s) URL, a path relative
\* to the page, or a mailto: address
Href(form, h, p, f) == [form |-> form, host |-> h, path |-> p, frag |-> f]

Hrefs ==
    { Href("absolute", "a.example", "/b", ""),
      Href("absolute", "a.example", "/b", "sec"),
      Href("absolute", "b.example", "/", ""),
      Href("relative", "", "/b", ""),
      Href("mailto", "", "x@a.example", "") }

HrefLists == UNION { [1..n -> Hrefs] : n \in 0..MaxLinks }

\* the URLs of the pages the document can be
DocumentUrls == { Href("absolute", "a.example", "/", ""),
                  Href("absolute", "b.example", "/", "") }

\* urljoin(page.url, href)
UrlJoin(page_url, href) ==
    IF href.form = "relative"
    THEN Href("absolute", page_url.host, href.path, href.frag)
    ELSE href

\* urlparse(abs_url).scheme in ('http', 'https')
IsHttpScheme(u) == u.form = "absolute"

\* list(dict.fromkeys(out))
RECURSIVE FromKeys(_, _)
FromKeys(seq, seen) ==
    IF seq = << >> THEN << >>
    ELSE IF Head(seq) \in seen THEN FromKeys(Tail(seq), seen)
    ELSE << Head(seq) >> \o FromKeys(Tail(seq), seen \cup { Head(seq) })

\* web_crawler.default_link_extractor: resolved, http(s) only, every anchor kept
RECURSIVE CrawlerLinkExtractor(_, _)
CrawlerLinkExtractor(page_url, hrefs) ==
    IF hrefs = << >> THEN << >>
    ELSE LET abs_url == UrlJoin(page_url, Head(hrefs))
         IN  (IF IsHttpScheme(abs_url) THEN << abs_url >> ELSE << >>)
             \o CrawlerLinkExtractor(page_url, Tail(hrefs))

\* interactive_link_extractor.default_link_extractor: the hrefs as written,
\* repeats dropped
InteractiveLinkExtractor(page_url, hrefs) == FromKeys(hrefs, {})

StaticExtractors == { "web_crawler", "interactive_link_extractor" }

StaticLinks(which, page_url, hrefs) ==
    IF which = "web_crawler" THEN CrawlerLinkExtractor(page_url, hrefs)
    ELSE InteractiveLinkExtractor(page_url, hrefs)

InitStatic ==
    /\ NoCrawl
    /\ \E which \in StaticExtractors, u \in DocumentUrls, hrefs \in HrefLists :
         extraction = [stage |-> "document", which |-> which, url |-> u,
                       hrefs |-> hrefs, links |-> << >>, again |-> << >>]

\* the extractor is applied to the document
ExtractStatic ==
    /\ extraction.stage = "document"
    /\ extraction' = [extraction EXCEPT
                        !.stage = "once",
                        !.links = StaticLinks(extraction.which, extraction.url,
                                              extraction.hrefs)]
    /\ UNCHANGED crawl

\* and applied to the same document once more
ExtractStaticAgain ==
    /\ extraction.stage = "once"
    /\ extraction' = [extraction EXCEPT
                        !.stage = "twice",
                        !.again = StaticLinks(extraction.which, extraction.url,
                                              extraction.hrefs)]
    /\ UNCHANGED crawl

NextStatic ==
    \/ ExtractStatic
    \/ ExtractStaticAgain

SpecStatic == InitStatic /\ [][NextStatic]_vars

(***************************************************************************)
(* _apply_scroll(page, cfg), lines 428-457.  document.body.scrollHeight is *)
(* whatever the page reports after each scrollBy: any height of Heights.   *)
(* `run` and `last` record what the steps observed: the length of the      *)
(* trailing run of steps that saw the height unchanged, and what the last  *)
(* step saw.                                                               *)
(***************************************************************************)
MaxSteps == 4
MaxPasses == 2
MaxHeight == 3

Heights == 1..MaxHeight

\* cfg of the scroll: max_steps, stop_if_no_dom_change, stability_passes;
\* no validation is applied to the numbers
ScrollConfigs ==
    [max_steps : 0..MaxSteps, stop_if_stable : BOOLEAN,
     stability_passes : -1..MaxPasses]

StableEnoughStrictly(stable_count, stability_passes) ==
    stable_count > stability_passes

\* line 447: `if stable_count >= stability_passes: break`
StableEnough(stable_count, stability_passes) ==
    stable_count >= stability_passes

\* lines 429-437: the configuration is read, the first height is taken
InitScroll ==
    /\ NoCrawl
    /\ \E cfg \in ScrollConfigs, h \in Heights :
         extraction = [stage |-> "scrolling", cfg |-> cfg, prev_height |-> h,
                       stable_count |-> 0, performed |-> 0,
                       run |-> 0, last |-> "none", ended |-> "no",
                       result |-> [performed_steps |-> 0, final_height |-> h,
                                   stopped_for_stability |-> FALSE]]

\* lines 439-451: one iteration of `for _ in range(max_steps)`
ScrollStep ==
    /\ extraction.stage = "scrolling"
    /\ extraction.performed < extraction.cfg.max_steps
    /\ \E new_height \in Heights :
         LET same == new_height = extraction.prev_height
             count == IF same
                      THEN IF extraction.cfg.stop_if_stable
                           THEN extraction.stable_count + 1
                           ELSE extraction.stable_count
                      ELSE 0
             break == /\ same
                      /\ extraction.cfg.stop_if_stable
                      /\ StableEnough(count, extraction.cfg.stability_passes)
         IN  extraction' = [extraction EXCEPT
                              !.stage = IF break THEN "broke" ELSE "scrolling",
                              !.performed = @ + 1,
                              !.stable_count = count,
                              !.prev_height = IF break THEN @ ELSE new_height,
                              !.run = IF same THEN @ + 1 ELSE 0,
                              !.last = IF same THEN "same"
                                       ELSE IF new_height > extraction.prev_height
                                            THEN "grew" ELSE "shrank"]
    /\ UNCHANGED crawl

\* lines 453-457: the loop is over, by `break` or by the end of the range
ScrollReturn ==
    /\ \/ extraction.stage = "broke"
       \/ /\ extraction.stage = "scrolling"
          /\ extraction.performed >= extraction.cfg.max_steps
    /\ extraction' = [extraction EXCEPT
                        !.stage = "scrolled",
                        !.ended = IF extraction.stage = "broke"
                                  THEN "stable" ELSE "budget",
                        !.result = [performed_steps |-> extraction.performed,
                                    final_height |-> extraction.prev_height,
                                    stopped_for_stability |->
                                        extraction.stable_count
                                          >= extraction.cfg.stability_passes]]
    /\ UNCHANGED crawl

NextScroll ==
    \/ ScrollStep
    \/ ScrollReturn

SpecScroll == InitScroll /\ [][NextScroll]_vars

(***************************************************************************)
(* _apply_pagination(page, cfg, working_links), lines 462-519.  What the   *)
(* page shows on each pass of the loop is free: which kind of next control *)
(* it offers, whether clicking it raises, and the links _collect_links     *)
(* reads afterwards (a list without repeats, empty when the read fails).   *)
(* `initial`, `attempts` and `zero_clicks` record the list handed in, the  *)
(* calls of click() and the counted clicks that added no link.             *)
(***************************************************************************)
MaxClicks == 3

\* what the page offers as next control: an element one of
\* next_selector_candidates matches, an element only the role/name pattern
\* matches, or nothing visible and enabled
Controls == { "selector", "role", "none" }

PaginationConfigs ==
    [max_clicks : 0..MaxClicks, stop_if_no_new : BOOLEAN,
     regex_fb : BOOLEAN]

\* lines 491-494 with _find_next_button and _regex_role_fallback: is there a
\* next_btn
NextBtn(control, regex_fb) ==
    \/ control = "selector"
    \/ control = "role" /\ regex_fb

\* lines 506-508: `if l not in working_links: working_links.append(l)`
RECURSIVE AppendNew(_, _)
AppendNew(working_links, new_links) ==
    IF new_links = << >> THEN working_links
    ELSE AppendNew(IF \E i \in 1..Len(working_links) :
                         working_links[i] = Head(new_links)
                   THEN working_links
                   ELSE Append(working_links, Head(new_links)),
                   Tail(new_links))

\* set(l) of a list
SetOf(l) == { l[i] : i \in 1..Len(l) }

StopAfterClickNever(stop_if_no_new, delta) == FALSE

\* line 512: `if stop_if_no_new and delta == 0: break`
StopAfterClick(stop_if_no_new, delta) == stop_if_no_new /\ delta = 0

InitPagination ==
    /\ NoCrawl
    /\ \E cfg \in PaginationConfigs, links \in BaseLinkLists :
         extraction = [stage |-> "paging", cfg |-> cfg,
                       working_links |-> links, clicks |-> 0, total_new |-> 0,
                       initial |-> links, attempts |-> 0, zero_clicks |-> 0,
                       control |-> "unseen",
                       result |-> [clicks |-> 0, total_new_links |-> 0,
                                   final_links |-> << >>]]

\* lines 489-497: no next control on this pass, the loop breaks
PaginationNoControl ==
    /\ extraction.stage = "paging"
    /\ extraction.clicks < extraction.cfg.max_clicks
    /\ \E control \in Controls :
         /\ ~ NextBtn(control, extraction.cfg.regex_fb)
         /\ extraction' = [extraction EXCEPT !.stage = "ended",
                                             !.control = control]
    /\ UNCHANGED crawl

\* lines 489-502: next_btn.click() raises, the loop breaks
PaginationClickRaises ==
    /\ extraction.stage = "paging"
    /\ extraction.clicks < extraction.cfg.max_clicks
    /\ \E control \in Controls :
         /\ NextBtn(control, extraction.cfg.regex_fb)
         /\ extraction' = [extraction EXCEPT !.stage = "ended",
                                             !.control = control,
                                             !.attempts = @ + 1]
    /\ UNCHANGED crawl

\* lines 489-513: the click succeeds, the links are read and appended
PaginationClick ==
    /\ extraction.stage = "paging"
    /\ extraction.clicks < extraction.cfg.max_clicks
    /\ \E control \in Controls, new_links \in BaseLinkLists :
         /\ NextBtn(control, extraction.cfg.regex_fb)
         /\ LET before == SetOf(extraction.working_links)
                working == AppendNew(extraction.working_links, new_links)
                delta == Cardinality(SetOf(working) \ before)
            IN  extraction' =
                  [extraction EXCEPT
                     !.stage = IF StopAfterClick(extraction.cfg.stop_if_no_new,
                                                 delta)
                               THEN "ended" ELSE "paging",
                     !.control = control,
                     !.working_links = working,
                     !.total_new = @ + delta,
                     !.clicks = @ + 1,
                     !.attempts = @ + 1,
                     !.zero_clicks = IF delta = 0 THEN @ + 1 ELSE @]
    /\ UNCHANGED crawl

\* lines 515-519: the loop is over, by `break` or because clicks reached
\* max_clicks
PaginationReturn ==
    /\ \/ extraction.stage = "ended"
       \/ /\ extraction.stage = "paging"
          /\ extraction.clicks >= extraction.cfg.max_clicks
    /\ extraction' = [extraction EXCEPT
                        !.stage = "paged",
                        !.result = [clicks |-> extraction.clicks,
                                    total_new_links |-> extraction.total_new,
                                    final_links |-> extraction.working_links]]
    /\ UNCHANGED crawl

NextPagination ==
    \/ PaginationNoControl
    \/ PaginationClickRaises
    \/ PaginationClick
    \/ PaginationReturn

SpecPagination == InitPagination /\ [][NextPagination]_vars

(***************************************************************************)
(* _apply_listbox(page, cfg), lines 263-327, called twice on one page.     *)
(* The page has at most one native <select> that select_selectors match    *)
(* and at most one custom dropdown that trigger_selectors match;           *)
(* trigger_text_regex is None, its default.  `effects` counts the calls    *)
(* that act on the page: select_option on an existing value, the script    *)
(* that sets el.value and dispatches `change`, and clicks.                 *)
(***************************************************************************)
MaxDesired == 2

\* the <option> elements a native list can hold
NativeOptions ==
    { [value |-> "45", text |-> "45 items"],
      [value |-> "60", text |-> "60 items"] }

\* the option texts a custom dropdown can hold
CustomOptions == { "45 items", "60 items" }

\* strings a configuration may ask for
DesiredOptions == { "45", "60", "60 items" }

DesiredLists == UNION { [1..n -> DesiredOptions] : n \in 0..MaxDesired }

\* _normalize_option_text, lines 396-402, on the texts above: the unit
\* suffix (items, items/page, per page, ...) and the blanks are dropped
NormalizeOptionText(text) ==
    CASE text = "45 items" -> "45"
      [] text = "60 items" -> "60"
      [] OTHER -> text

NoSelect == [present |-> FALSE, options |-> {}, value |-> ""]

\* a <select> shows one of its options as its value
Selects ==
    { NoSelect } \cup
    UNION { { [present |-> TRUE, options |-> opts, value |-> o.value] :
                o \in opts } :
            opts \in SUBSET NativeOptions \ { {} } }

Dropdowns ==
    [present : BOOLEAN, options : SUBSET CustomOptions, chosen : { "" }]

ListboxConfigs ==
    [desired : DesiredLists, skip_if_already_selected : BOOLEAN,
     prefer_value_match : BOOLEAN]

Pages == [select : Selects, dropdown : Dropdowns]

\* what a call returns and leaves behind: the result's status, value and
\* mode, the page after the call and the number of calls that acted on it
Outcome(status, value, mode, page, effects) ==
    [status |-> status, value |-> value, mode |-> mode, page |-> page,
     effects |-> effects]

\* line 278: `cfg.get("skip_if_already_selected") and current_val and
\* current_val in desired`
SkipCheck(page, cfg) ==
    /\ cfg.skip_if_already_selected
    /\ page.select.value /= ""
    /\ \E i \in 1..Len(cfg.desired) : cfg.desired[i] = page.select.value

\* lines 311-313 with _try_dropdown_trigger and _dropdown_select_option: the
\* trigger is clicked, then the first desired option the open list shows
RECURSIVE DropdownLoop(_, _, _)
DropdownLoop(page, cfg, i) ==
    IF i > Len(cfg.desired)
    THEN Outcome("not_found", "", "", page, 1)
    ELSE IF \E text \in page.dropdown.options :
              NormalizeOptionText(text) = NormalizeOptionText(cfg.desired[i])
         THEN Outcome("selected", "", "custom-dropdown",
                      [page EXCEPT !.dropdown.chosen =
                         NormalizeOptionText(cfg.desired[i])], 2)
         ELSE DropdownLoop(page, cfg, i + 1)

CustomDropdown(page, cfg) ==
    IF page.dropdown.present
    THEN DropdownLoop(page, cfg, 1)
    ELSE Outcome("not_found", "", "", page, 0)

\* lines 281-307: `for opt in desired`, by value first, by text second
RECURSIVE DesiredLoop(_, _, _)
DesiredLoop(page, cfg, i) ==
    IF i > Len(cfg.desired)
    THEN CustomDropdown(page, cfg)
    ELSE LET opt == cfg.desired[i]
             byText == { o \in page.select.options :
                           NormalizeOptionText(o.text)
                             = NormalizeOptionText(opt) }
         IN  IF /\ cfg.prefer_value_match
                /\ \E o \in page.select.options : o.value = opt
             THEN Outcome("selected", opt, "native-select",
                          [page EXCEPT !.select.value = opt], 1)
             ELSE IF byText /= {}
                  THEN Outcome("selected_text_match", opt, "native-select",
                               [page EXCEPT !.select.value =
                                  (CHOOSE o \in byText : TRUE).value], 1)
                  ELSE DesiredLoop(page, cfg, i + 1)

\* _apply_listbox
ApplyListbox(page, cfg) ==
    IF cfg.desired = << >>
    THEN Outcome("skipped", "", "", page, 0)
    ELSE IF ~ page.select.present
         THEN CustomDropdown(page, cfg)
         ELSE IF SkipCheck(page, cfg)
              THEN Outcome("already_selected", page.select.value,
                           "native-select", page, 0)
              ELSE DesiredLoop(page, cfg, 1)

InitListbox ==
    /\ NoCrawl
    /\ \E cfg \in ListboxConfigs, page \in Pages :
         extraction = [stage |-> "listbox", cfg |-> cfg, page |-> page,
                       first |-> Outcome("", "", "", page, 0),
                       second |-> Outcome("", "", "", page, 0)]

\* line 82: meta["listbox"] = _apply_listbox(page, cfg["listbox"])
Select ==
    /\ extraction.stage = "listbox"
    /\ extraction' = [extraction EXCEPT
                        !.stage = "once",
                        !.first = ApplyListbox(extraction.page, extraction.cfg)]
    /\ UNCHANGED crawl

\* the same call on the page the first one left
SelectAgain ==
    /\ extraction.stage = "once"
    /\ extraction' = [extraction EXCEPT
                        !.stage = "twice",
                        !.second = ApplyListbox(extraction.first.page,
                                                extraction.cfg)]
    /\ UNCHANGED crawl

NextListbox ==
    \/ Select
    \/ SelectAgain

SpecListbox == InitListbox /\ [][NextListbox]_vars

(***************************************************************************)
(* The outcome record of the interaction engine on its way to              *)
(* data_handler: web_crawler.py lines 244-275 build temp_page, call the    *)
(* extractor on it, build payload and call data_handler(payload);          *)
(* interactive_link_extractor.py lines 113-121 write the record into       *)
(* scraped_page.extras.  An object is shown by its attributes: `extras` is *)
(* absent (the attribute does not exist), something that is not a dict, or *)
(* a dict whose "interactive" entry is unset or holds a record.            *)
(***************************************************************************)
NoExtras == [kind |-> "absent"]
NotADict == [kind |-> "other"]
EmptyDict == [kind |-> "dict", interactive |-> [kind |-> "unset"]]

\* the fields of the dataclass ScrapedPage, web_crawler.py lines 64-73
ScrapedPageFields ==
    { "url", "status", "success", "html", "text", "soup", "headers",
      "last_modified", "title", "links" }

\* ScrapedPage(...): an object with the dataclass's fields and no other
ScrapedPage(links) ==
    [links |-> links,
     extras |-> IF "extras" \in ScrapedPageFields THEN EmptyDict ELSE NoExtras]

\* the pages a caller of the extractor can hand in: the crawler hands a
\* ScrapedPage; code that calls the extractor itself can hand any object
\* with a url and a soup
PageObjects ==
    { [links |-> << >>, extras |-> e] : e \in { NoExtras, NotADict, EmptyDict } }

\* meta of lines 63-68 after the engine ran: the three results (None when
\* the interaction is disabled or failed) and the ordered error list
Metas ==
    { m \in [listbox : { "None", "selected", "not_found" },
             scroll : { "None", "scrolled" },
             pagination : { "None", "paged" },
             errors : { e \in UNION { [1..n -> { "listbox", "scroll",
                                                  "pagination",
                                                  "playwright_root" }] :
                                       n \in 0..2 } :
                          \A i, j \in 1..Len(e) : i < j =>
                              /\ e[i] /= e[j]
                              /\ e[i] /= "playwright_root" }] :
        \A k \in 1..Len(m.errors) :
            /\ m.errors[k] = "listbox" => m.listbox = "None"
            /\ m.errors[k] = "scroll" => m.scroll = "None"
            /\ m.errors[k] = "pagination" => m.pagination = "None" }

\* lines 115-119: hasattr(scraped_page, "extras") and
\* isinstance(scraped_page.extras, dict), then setdefault and update
AttachMeta(page, meta, base_links, merged) ==
    IF page.extras.kind = "dict"
    THEN [page EXCEPT !.extras.interactive =
            [kind |-> "set", meta |-> meta,
             base_link_count |-> Len(base_links),
             final_link_count |-> Len(merged)]]
    ELSE page

\* the extractor is about to be called: by _scrape, which has fetched a
\* page, or by other code with a page object of its own
InitAttach ==
    /\ NoCrawl
    /\ \E caller \in { "crawl", "direct" }, meta \in Metas,
          base \in BaseLinkLists, page \in PageObjects :
         extraction = [stage |-> IF caller = "crawl" THEN "fetched" ELSE "temp_page",
                       caller |-> caller, meta |-> meta, base_links |-> base,
                       temp_page |-> page,
                       links |-> << >>,
                       payload |-> page,
                       handed |-> FALSE]

\* web_crawler.py lines 244-255: temp_page = ScrapedPage(..., links=[])
BuildTempPage ==
    /\ extraction.stage = "fetched"
    /\ extraction' = [extraction EXCEPT !.stage = "temp_page",
                                        !.temp_page = ScrapedPage(<< >>)]
    /\ UNCHANGED crawl

\* web_crawler.py line 259 with interactive_link_extractor.py lines 113-121:
\* the engine has run; merged is computed, the record is written into the
\* page's extras when the page has such a dict, merged is returned
CallExtractor ==
    /\ extraction.stage = "temp_page"
    /\ \E add \in BaseLinkLists :
         LET merged == NormalizeAndMerge(extraction.base_links, add,
                                         [strip_fragment |-> TRUE,
                                          unique |-> TRUE])
         IN  extraction' = [extraction EXCEPT
                              !.stage = "extracted",
                              !.links = merged,
                              !.temp_page = AttachMeta(extraction.temp_page,
                                                       extraction.meta,
                                                       extraction.base_links,
                                                       merged)]
    /\ UNCHANGED crawl

\* web_crawler.py lines 262-273: payload = ScrapedPage(..., links=links)
BuildPayload ==
    /\ extraction.stage = "extracted"
    /\ extraction.caller = "crawl"
    /\ extraction' = [extraction EXCEPT !.stage = "payload",
                                        !.payload = ScrapedPage(extraction.links)]
    /\ UNCHANGED crawl

\* web_crawler.py line 275: data_handler(payload)
CallDataHandler ==
    /\ extraction.stage = "payload"
    /\ extraction' = [extraction EXCEPT !.stage = "handled", !.handed = TRUE]
    /\ UNCHANGED crawl

NextAttach ==
    \/ BuildTempPage
    \/ CallExtractor
    \/ BuildPayload
    \/ CallDataHandler

SpecAttach == InitAttach /\ [][NextAttach]_vars

(***************************************************************************)
(* The crawls above with their steps taken for as long as one is enabled:  *)
(* every fetch and every delay completes and every callback returns or     *)
(* raises, so a crawl that can take a step takes one.                      *)
(***************************************************************************)
SpecLive == Spec /\ WF_vars(Next)

SpecMutatingLive == SpecMutating /\ WF_vars(NextMutating)

(***************************************************************************)
(* Properties.                                                             *)
(***************************************************************************)
\* the fetches issued for resource r, whatever fragment the URL carried
FetchesOfResource(r) ==
    BagCardinality([e \in { x \in DOMAIN fetchLog : StripFragment(x.url) = r }
                      |-> fetchLog[e]])

\* the data_handler invocations made for URL u
DataCallsFor(u) ==
    BagCardinality([e \in { x \in DOMAIN dataLog : x.url = u } |-> dataLog[e]])

StartHost == Netloc(StartUrl)

\* C1: each URL, compared after stripping its fragment, is fetched at most
\* once in a crawl, also when several links lead to it.
C1_FetchedAtMostOncePerResource ==
    \A u \in URLS : FetchesOfResource(StripFragment(u)) <= 1

\* C2: for depth >= 1 every fetch ends a chain of at most `depth` nested
\* steps from the start URL, and no step with remaining depth 1 (or less)
\* iterates over links or has a child step.
C2_DepthInvariant ==
    depth >= 1 =>
        /\ \A e \in DOMAIN fetchLog : e.chain <= depth
        /\ \A i \in 1..Len(stack) :
             /\ stack[i].depth >= 1
             /\ stack[i].depth = 1 => (stack[i].pc # "loop" /\ i = Len(stack))

C2_Witness ==
    /\ depth = MaxDepth
    /\ \E e \in DOMAIN fetchLog : e.chain = depth
    /\ At("sleep") /\ Top.depth = 1 /\ ev.kind = "data_true"

\* C3: every URL fetched, and every URL a step is started for, has the start
\* URL's host; a cross-origin link that a page lists is passed over.
C3_DomainInvariant ==
    /\ \A e \in DOMAIN fetchLog : Netloc(e.url) = StartHost
    /\ \A i \in 1..Len(stack) : Netloc(stack[i].url) = StartHost
    /\ \A u \in visited : Netloc(u) = StartHost

C3_Witness ==
    /\ ev.kind = "skip_domain"
    /\ Netloc(ev.url) # StartHost
    /\ Len(stack) >= 2

\* the claim's own reading of "Last-Modified is parseable and earlier than
\* since, both taken as UTC instants"
ClaimedOlder(s, h) ==
    /\ s.kind = "date"
    /\ h.kind = "date"
    /\ (IF h.aware THEN h.wall - h.off ELSE h.wall)
         < (IF s.aware THEN s.wall - s.off ELSE s.wall)

\* C4: a step whose response carries a Last-Modified earlier than `since`
\* ends there: data_handler is not invoked, nothing of the page is followed,
\* no exception is raised and the calling steps are left as they were.
C4_FreshnessSkip ==
    [][ (At("page") /\ ClaimedOlder(since, Top.last_modified))
          => /\ dataLog' = dataLog
             /\ stack' = Pop(stack)
             /\ raised' = None
             /\ ev'.kind = "older" ]_vars

C4_Witness ==
    /\ ev.kind = "older"
    /\ DataCallsFor(ev.url) = 0
    /\ stack # << >>
    /\ Top.links # << >>

\* C5: a failed fetch is reported by exactly one data_handler invocation for
\* that URL, with success = false.
C5_FetchFailureReported ==
    ev.kind = "fetch_error" =>
        /\ DataCallsFor(ev.url) = 1
        /\ \E e \in DOMAIN dataLog :
             e.url = ev.url /\ ~e.success /\ e.status = ev.status

\* the claim's own reading of "HTML-family"
ClaimedHtml(ct) == ct \in { "text/html", "application/xhtml+xml" }

C7_DataFalseStopsOnlyThisPage ==
    [][ ev'.kind = "data_false"
          => /\ stack' = Pop(stack)
             /\ raised' = None
             /\ visited' = visited
             /\ fetchLog' = fetchLog ]_vars

C7_Witness ==
    /\ ev.kind = "data_false"
    /\ stack # << >>
    /\ Top.pc = "loop"
    /\ Top.links # << >>

\* C8: a step for which stop_handler returns true does nothing but end: no
\* insert into visited (the check comes first), no fetch, no data_handler
\* invocation, no child step; the calling steps are left as they were.
C8_StopAbandonsOnlyThisStep ==
    [][ ev'.kind = "stop"
          => /\ visited' = visited
             /\ fetchLog' = fetchLog
             /\ dataLog' = dataLog
             /\ stack' = Pop(stack)
             /\ raised' = None ]_vars

C8_Witness ==
    /\ ev.kind = "stop"
    /\ ev.url \notin visited
    /\ stack # << >>
    /\ Top.links # << >>

\* C9: with a stop handler that answers true whenever visited holds at least
\* CapN URLs, visited never holds more than CapN URLs and at most CapN
\* fetches are issued.
C9_PageCap ==
    stop_handler = "cap" =>
        /\ Cardinality(visited) <= CapN
        /\ BagCardinality(fetchLog) <= CapN

C9_Witness ==
    /\ stop_handler = "cap"
    /\ ev.kind = "stop"
    /\ Cardinality(visited) = CapN
    /\ BagCardinality(fetchLog) = CapN

\* C10: an exception raised by data_handler or by the link extractor ends
\* that page's call only: the calling steps are left as they were, nothing
\* of the page is followed, and no exception leaves scrape_website.
C10_CallbackExceptionCaught ==
    /\ [][ ev'.kind \in { "data_raised", "extractor_raised" }
             => /\ stack' = Pop(stack)
                /\ raised' = None
                /\ visited' = visited ]_vars
    /\ [](raised = None)
    /\ [](Done => ev.kind = "returned")

C10_Witness ==
    /\ ev.kind \in { "data_raised", "extractor_raised" }
    /\ stack # << >>
    /\ Top.pc = "loop"
    /\ Top.links # << >>

\* C11: an exception raised by stop_handler is caught inside the step it was
\* raised in: every calling step is still active afterwards and no exception
\* leaves scrape_website, also when the step is the start URL's.
C11_StopHandlerExceptionCaught ==
    ev.kind = "stop_raised" =>
        /\ raised = None
        /\ Len(stack) >= ev.level - 1

\* C12: when the link extractor raises for a page, data_handler is still
\* invoked for that page, as it would be had the extractor returned no links.
C12_ExtractorExceptionAsEmptyList ==
    ev.kind = "extractor_raised" => DataCallsFor(ev.url) >= 1

\* C13: called with depth < 1, scrape_website fetches nothing, inserts
\* nothing into the visited set and never invokes data_handler.
C13_NoWorkBelowDepthOne ==
    depth < 1 =>
        /\ fetchLog = EmptyBag
        /\ visited = {}
        /\ dataLog = EmptyBag

\* the links of the claim's scenario: pairwise distinct, on the start URL's
\* host, none the start URL itself, all passing the regex filter
ScenarioLinks(links, pat) ==
    /\ \A i, j \in 1..Len(links) : links[i] = links[j] => i = j
    /\ \A i \in 1..Len(links) :
         /\ Netloc(links[i]) = StartHost
         /\ links[i] # StartUrl
         /\ ~RegexRejects(pat, links[i])

\* depth = 2, stop_handler always false, data_handler always true, and the
\* start page was fetched and exposes the scenario's links
InScenario ==
    /\ depth = 2
    /\ stop_handler = "never"
    /\ data_handler = "always_true"
    /\ start_page.known
    /\ ScenarioLinks(start_page.links, url_regex)

FetchesOfUrl(u) ==
    BagCardinality([e \in { x \in DOMAIN fetchLog : x.url = u } |-> fetchLog[e]])

\* C14: in the scenario no step is nested deeper than a child of the root,
\* and a crawl whose start page was reported ends with exactly 1 + k
\* fetches: one of the start URL and one of each of the k links.
C14_OnePlusKFetches ==
    InScenario =>
        /\ Len(stack) <= 2
        /\ \A e \in DOMAIN fetchLog : e.chain <= 2
        /\ (Done /\ DataCallsFor(StartUrl) = 1) =>
              /\ BagCardinality(fetchLog) = 1 + Len(start_page.links)
              /\ FetchesOfUrl(StartUrl) = 1
              /\ \A i \in 1..Len(start_page.links) :
                   FetchesOfUrl(start_page.links[i]) = 1

C14_Witness ==
    /\ InScenario
    /\ Done
    /\ DataCallsFor(StartUrl) = 1
    /\ Len(start_page.links) = 2
    /\ BagCardinality(fetchLog) = 3

\* the tasks whose step for u went past the visited check
Proceeded(u) == { t \in Tasks : tasks[t].url = u /\ tasks[t].pc \in { "get", "done" } }

InFlight ==
    Cardinality({ i \in 1..Len(stack) : stack[i].pc # "enter" })

\* C16: at every moment the number of fetches in flight is at most the
\* configured concurrency limit, whichever limit from 1 to the default 8 is
\* configured and however deep the crawl recurses.
C16_InFlightWithinLimit ==
    \A limit \in 1..8 : InFlight <= limit

\* C17: every fetch other than the start URL's is issued only after a full
\* politeness delay has passed since the fetch before it.
C17_DelayBeforeEachFollowedFetch ==
    (At("get") /\ Len(stack) >= 2) => delayed

\* C18: a cancellation leaves every nested step at once and scrape_website
\* ends with CancelledError; from then on nothing is fetched, no URL is
\* claimed and no callback runs, and the visited set keeps its entries.
C18_CancellationPropagates ==
    /\ [][ ev'.kind = "cancelled"
             => /\ stack' = << >>
                /\ raised' = "CancelledError"
                /\ visited' = visited ]_vars
    /\ [][ raised = "CancelledError"
             => /\ stack' = << >>
                /\ raised' = raised
                /\ visited' = visited
                /\ fetchLog' = fetchLog
                /\ dataLog' = dataLog ]_vars
    /\ []((Done /\ raised = "CancelledError") => ev.kind = "raised")

C18_Witness ==
    /\ ev.kind = "cancelled"
    /\ raised = "CancelledError"
    /\ Cardinality(visited) >= 2
    /\ BagCardinality(fetchLog) >= 1

\* C19: every fetch is issued on the one session while it is open; the
\* session is closed when scrape_website is left, by return or by exception,
\* only after the outermost step ended, and once closed it stays closed and
\* carries no further fetch.
C19_SessionClosedOnceOnExit ==
    /\ [][ fetchLog' # fetchLog => (session = "open" /\ session' = "open") ]_vars
    /\ [][ ev'.kind \in { "returned", "raised" } => session' = "closed" ]_vars
    /\ [][ session = "closed" => (session' = "closed" /\ fetchLog' = fetchLog
                                    /\ stack' = stack) ]_vars
    /\ [](session = "closed" => stack = << >>)

C19_Witness ==
    /\ Done
    /\ ev.kind = "raised"
    /\ BagCardinality(fetchLog) >= 2

\* the claim's triggers: a force-pattern matches the URL, the static link
\* count is below min_initial_links, or one of listbox/scroll/pagination is
\* enabled
ClaimedTrigger(x) ==
    \/ (x.cfg.force_patterns = << ListPattern >> /\ x.page.path = "/list")
    \/ x.base_count < x.cfg.min_initial_links
    \/ x.cfg.interactions \cap Interactions # {}

\* the claim's closed gate: disabled, host not equal to any name of a
\* non-empty allow-list, or no trigger
ClaimedGateClosed(x) ==
    \/ ~x.cfg.enabled
    \/ (x.cfg.domains # << >> /\ \A i \in 1..Len(x.cfg.domains) : x.page.host # x.cfg.domains[i])
    \/ ~ClaimedTrigger(x)

\* C20: the extractor returns the static links unchanged whenever the gate
\* is closed (disabled, host outside a non-empty allow-list by host
\* equality, or no trigger), and the interaction engine runs only if a
\* trigger holds.
C20_DynamicExtractionGated ==
    extraction.stage = "returned" =>
        /\ ClaimedGateClosed(extraction) => extraction.result = "static"
        /\ extraction.result = "engine" => ClaimedTrigger(extraction)

\* C28: the link extractor has run for a page only if data_handler was
\* invoked for that page before and depth budget remains (depth > 1).
C28_ExtractorAfterDataHandler ==
    At("extracted") =>
        /\ DataCallsFor(Top.url) >= 1
        /\ Top.depth > 1

\* C29: whatever stop_handler does with the set it is given, the crawl's
\* visited set holds exactly the URLs its steps claimed: no URL is fetched
\* twice, and every URL in the set was claimed by a step that fetches it.
C29_StopHandlerCannotChangeVisited ==
    \A u \in URLS :
        /\ FetchesOfUrl(u) <= 1
        /\ u \in visited =>
             \/ FetchesOfUrl(u) >= 1
             \/ \E i \in 1..Len(stack) : stack[i].url = u /\ stack[i].pc = "get"

\* the position of the first entry of seq that is x once its fragment is cut
FirstStripped(seq, x) ==
    CHOOSE i \in 1..Len(seq) :
        /\ StripFragment(seq[i]) = x
        /\ \A j \in 1..(i - 1) : StripFragment(seq[j]) # x

\* result is seq with fragments cut and repeats dropped, first occurrences
\* kept in their order
IsStrippedFirstOccurrences(result, seq) ==
    /\ \A i, j \in 1..Len(result) : result[i] = result[j] => i = j
    /\ \A i \in 1..Len(result) : result[i].frag = ""
    /\ \A i \in 1..Len(seq) : \E k \in 1..Len(result) : result[k] = StripFragment(seq[i])
    /\ \A k \in 1..Len(result) : \E i \in 1..Len(seq) : result[k] = StripFragment(seq[i])
    /\ \A k, l \in 1..Len(result) :
         k < l => FirstStripped(seq, result[k]) < FirstStripped(seq, result[l])

\* C21 as stated: whatever the link_normalization settings, the merged list
\* is the static links followed by the dynamic ones, fragments cut, repeats
\* dropped keeping the first occurrence.
C21_MergedNormalized ==
    extraction.stage = "merged" =>
        IsStrippedFirstOccurrences(extraction.merged,
                                   extraction.base_links \o extraction.add_links)

\* C21: with strip_fragment and unique both set (their defaults) the merged
\* list is the static links followed by the dynamic ones, fragments cut,
\* repeats dropped keeping the first occurrence.
C21_MergedNormalizedByDefault ==
    (/\ extraction.stage = "merged"
     /\ extraction.norm.strip_fragment
     /\ extraction.norm.unique) =>
        IsStrippedFirstOccurrences(extraction.merged,
                                   extraction.base_links \o extraction.add_links)

C21_Witness ==
    /\ extraction.stage = "merged"
    /\ extraction.norm.strip_fragment
    /\ extraction.norm.unique
    /\ Len(extraction.base_links) = 2
    /\ Len(extraction.add_links) = 2
    /\ Len(extraction.merged) = 2
    /\ \E i \in 1..2 : extraction.add_links[i].frag # ""

\* the position of the first href that resolves to the http(s) URL x
FirstResolved(page_url, hrefs, x) ==
    CHOOSE i \in 1..Len(hrefs) :
        /\ UrlJoin(page_url, hrefs[i]) = x
        /\ \A j \in 1..(i - 1) : UrlJoin(page_url, hrefs[j]) # x

\* links is the hrefs resolved against page_url, http(s) only, in document
\* order, first occurrences only
IsResolvedStaticLinks(links, page_url, hrefs) ==
    /\ \A i, j \in 1..Len(links) : links[i] = links[j] => i = j
    /\ \A k \in 1..Len(links) :
         /\ links[k].form = "absolute"
         /\ \E i \in 1..Len(hrefs) : UrlJoin(page_url, hrefs[i]) = links[k]
    /\ \A i \in 1..Len(hrefs) :
         UrlJoin(page_url, hrefs[i]).form = "absolute"
            => \E k \in 1..Len(links) : links[k] = UrlJoin(page_url, hrefs[i])
    /\ \A k, l \in 1..Len(links) :
         k < l => FirstResolved(page_url, hrefs, links[k])
                    < FirstResolved(page_url, hrefs, links[l])

\* C22: the static extractor yields the hrefs resolved against the page URL,
\* http/https only, in document order, first occurrences only; applied
\* again to the same document it yields the same list.
C22_StaticLinksResolvedOrderedUnique ==
    /\ extraction.stage \in { "once", "twice" } =>
         IsResolvedStaticLinks(extraction.links, extraction.url, extraction.hrefs)
    /\ extraction.stage = "twice" => extraction.again = extraction.links

\* the stages that must have run once the page was navigated to: the enabled
\* interactions and both collects, in the fixed order
RECURSIVE StagesDue(_, _)
StagesDue(i, enabled) ==
    IF i > Len(EngineStages) THEN << >>
    ELSE (IF EngineStages[i] \in Interactions /\ EngineStages[i] \notin enabled
          THEN << >> ELSE << EngineStages[i] >>) \o StagesDue(i + 1, enabled)

IsPrefixOf(a, b) == Len(a) <= Len(b) /\ SubSeq(b, 1, Len(a)) = a

\* C23: the stages run in the order listbox, scroll, collect, pagination,
\* final collect; a failing listbox, scroll or pagination is entered in the
\* errors list and all later stages still run; and whatever fails, the
\* extractor returns the merged list and does not raise.
C23_StageFailuresContained ==
    /\ extraction.stage # "none" =>
         /\ IsPrefixOf(extraction.ran, StagesDue(1, extraction.enabled))
         /\ \A st \in extraction.failed :
              \E k \in 1..Len(extraction.errors) : extraction.errors[k] = st
    /\ extraction.stage = "returned" => extraction.result = "merged"
    /\ extraction.stage \in { "close", "exit", "merge", "returned" } =>
         \/ extraction.ran = StagesDue(1, extraction.enabled)
         \/ (extraction.root_failed /\ extraction.ran = << >>)

C23_Witness ==
    /\ extraction.stage = "returned"
    /\ extraction.failed = { "listbox", "pagination" }
    /\ extraction.ran = EngineStages
    /\ extraction.result = "merged"

C25_ScrollBounded ==
    extraction.stage \in { "scrolling", "broke", "scrolled" } =>
      /\ extraction.performed <= extraction.cfg.max_steps
      /\ ( /\ extraction.stage = "scrolling"
           /\ extraction.cfg.stop_if_stable ) =>
             \/ extraction.run = 0
             \/ extraction.run < extraction.cfg.stability_passes
      /\ extraction.stage = "broke" =>
           /\ extraction.cfg.stop_if_stable
           /\ extraction.run >= extraction.cfg.stability_passes
      /\ extraction.last = "grew" => extraction.stable_count = 0

\* a step that saw the height change came between unchanged ones, and the
\* second unchanged step in a row then stopped the scroll at its fourth step
C25_Witness ==
    /\ extraction.stage = "broke"
    /\ extraction.cfg.stability_passes = 2
    /\ extraction.performed = 4
    /\ extraction.run = 2

\* C30: the scroll result reports the steps actually performed, and its
\* stopped_for_stability flag is true exactly when the loop ended because
\* the height was unchanged for stability_passes consecutive steps, false
\* when the loop ran out of max_steps, whatever the configuration.
C30_ScrollResultTellsWhyItStopped ==
    extraction.stage = "scrolled" =>
      /\ extraction.result.performed_steps = extraction.performed
      /\ extraction.result.stopped_for_stability
           <=> (extraction.ended = "stable")

\* C26: pagination, for every sequence of page states: neither the counted
\* clicks nor the calls of click() exceed max_clicks; with
\* stop_if_no_new_links set the loop is over right after the first click
\* that added no link; the loop is over once no next control was found; and
\* final_links starts with the links handed in, in their order, the newly
\* found ones behind them.
C26_PaginationBoundedAndKeepsLinks ==
    extraction.stage \in { "paging", "ended", "paged" } =>
      /\ extraction.clicks <= extraction.cfg.max_clicks
      /\ extraction.attempts <= extraction.cfg.max_clicks
      /\ extraction.cfg.stop_if_no_new =>
           /\ extraction.zero_clicks <= 1
           /\ extraction.stage = "paging" => extraction.zero_clicks = 0
      /\ ~ NextBtn(extraction.control, extraction.cfg.regex_fb) =>
           extraction.stage /= "paging" \/ extraction.control = "unseen"
      /\ IsPrefixOf(extraction.initial, extraction.working_links)
      /\ extraction.stage = "paged" =>
           /\ extraction.result.final_links = extraction.working_links
           /\ extraction.result.clicks = extraction.clicks
           /\ SetOf(extraction.initial)
                \subseteq SetOf(extraction.result.final_links)

\* a click found a new link, the next one found none and ended the loop
\* short of max_clicks
C26_Witness ==
    /\ extraction.stage = "paged"
    /\ extraction.cfg.stop_if_no_new
    /\ extraction.result.clicks = 2
    /\ extraction.cfg.max_clicks = 3
    /\ extraction.zero_clicks = 1
    /\ Len(extraction.initial) = 1
    /\ Len(extraction.result.final_links) = 2

\* C27: with skip_if_already_selected, a native list whose current value is
\* any of the desired options is left alone (no select, click or script
\* acts on the page) and the result is already_selected with that value; a
\* second call after a call that selected an option in the native list
\* changes nothing.
C27_ListboxIdempotent ==
    /\ ( /\ extraction.stage \in { "once", "twice" }
         /\ extraction.cfg.skip_if_already_selected
         /\ extraction.page.select.present
         /\ \E i \in 1..Len(extraction.cfg.desired) :
              extraction.cfg.desired[i] = extraction.page.select.value ) =>
           /\ extraction.first.status = "already_selected"
           /\ extraction.first.value = extraction.page.select.value
           /\ extraction.first.effects = 0
           /\ extraction.first.page = extraction.page
    /\ ( /\ extraction.stage = "twice"
         /\ extraction.cfg.skip_if_already_selected
         /\ extraction.first.mode = "native-select"
         /\ extraction.first.status
              \in { "selected", "selected_text_match" } ) =>
           /\ extraction.second.effects = 0
           /\ extraction.second.page = extraction.first.page

\* C31: after the interaction engine has run for a page of a crawl, the page
\* object data_handler is called with carries the engine's outcome record
\* (the listbox, scroll and pagination results and the ordered error list)
\* in its metadata bag.
C31_OutcomeAttachedBeforeDataHandler ==
    ( /\ extraction.stage = "handled"
      /\ extraction.caller = "crawl" ) =>
        /\ extraction.payload.extras.kind = "dict"
        /\ extraction.payload.extras.interactive.kind = "set"
        /\ extraction.payload.extras.interactive.meta = extraction.meta

\* C33: in every step the visited set only grows, also when the step fails
\* or is abandoned after the insert; a fetch is started only for a URL that
\* is in the set; and a step abandoned by stop_handler inserts nothing, so
\* its URL can be fetched when reached again.
C33_VisitedOnlyGrows ==
    [][ /\ visited \subseteq visited'
        /\ fetchLog' /= fetchLog => Top.url \in visited
        /\ ev'.kind = "stop" => visited' = visited ]_vars

\* the fetches issued so far, all URLs together
Fetches == BagCardinality(fetchLog)

\* C32: whatever the links, the depth and the callbacks do, scrape_website
\* eventually returns or raises, and at no time has it issued more fetches
\* than there are distinct URLs.
C32_TerminatesWithinUrlCount ==
    /\ <>Done
    /\ [](Fetches <= Cardinality(URLS))

\* the call at position i of the stack has fetched its page and may go on to
\* expand it
Expanding(i) == stack[i].pc \in { "page", "extracted", "loop", "sleep" }

\* C34: the traversal is sequential and depth first: while a call runs,
\* every caller below it waits in its loop for that call's whole subtree;
\* no URL is fetched twice; and a page is expanded only by the call that
\* claimed and fetched it, with the depth that call was given, so a URL
\* first claimed as a leaf is not expanded when a later link reaches it with
\* more depth left.
C34_DepthFirstFirstClaimWins ==
    /\ \A i \in 1..(Len(stack) - 1) :
         /\ stack[i].pc = "loop"
         /\ stack[i + 1].depth = stack[i].depth - 1
    /\ \A u \in URLS : FetchesOfUrl(u) <= 1
    /\ \A i \in 1..Len(stack) :
         Expanding(i) =>
           BagIn([url |-> stack[i].url, chain |-> i], fetchLog)

====
